---- MODULE Spec2Model ----
(***************************************************************************)
(* Model of the DOM serializer of go-xmldom (marshal.go): Marshal,         *)
(* MarshalIndent and the recursive serializers they call, applied to DOM   *)
(* trees that a caller builds through the Document/Element API.            *)
(*                                                                         *)
(* A Go string is a sequence of one-character strings.  A DOM node is a    *)
(* record [type, name, data, attrs, children]; a bytes.Buffer is the       *)
(* sequence of characters written to it, in order.                         *)
(***************************************************************************)
EXTENDS Integers, Sequences, FiniteSets, TLC

VARIABLES doc,    \* the Document node the caller has built
          call,   \* the arguments of the last Marshal/MarshalIndent call, or NoCall
          out,    \* the bytes that call returned
          err     \* the error that call returned

vars == <<doc, call, out, err>>

-----------------------------------------------------------------------------
(* Bounds of the model.                                                    *)

\* nodes below the Document node, attributes included, in Spec
MaxNodes == 4
\* child nodes and attributes of the document element in SpecEscape
MaxContent == 2
\* nodes below the Document node in SpecDocument
MaxDocumentNodes == 3

-----------------------------------------------------------------------------
(* Strings.                                                                *)

RECURSIVE Repeat(_, _)
\* strings.Repeat(s, count)
Repeat(s, count) == IF count <= 0 THEN <<>> ELSE s \o Repeat(s, count - 1)

\* strings.Contains(s, c) for a one-character c
Contains(s, c) == \E i \in 1..Len(s) : s[i] = c

\* unicode.IsSpace on the characters of the model
IsSpace(c) == c \in {" ", "\t", "\n", "\r"}

\* strings.TrimSpace(s) == ""
TrimSpaceIsEmpty(s) == \A i \in 1..Len(s) : IsSpace(s[i])

\* EscapeString on one character
EscapeChar(c) ==
    CASE c = "&"  -> <<"&", "a", "m", "p", ";">>
      [] c = "<"  -> <<"&", "l", "t", ";">>
      [] c = ">"  -> <<"&", "g", "t", ";">>
      [] c = "\"" -> <<"&", "#", "3", "4", ";">>
      [] c = "'"  -> <<"&", "#", "3", "9", ";">>
      [] c = "\t" -> <<"&", "#", "x", "9", ";">>
      [] c = "\n" -> <<"&", "#", "x", "A", ";">>
      [] c = "\r" -> <<"&", "#", "x", "D", ";">>
      [] OTHER    -> <<c>>

RECURSIVE EscapeString(_)
\* EscapeString(s): the XML escaping of s
EscapeString(s) ==
    IF s = <<>> THEN <<>> ELSE EscapeChar(Head(s)) \o EscapeString(Tail(s))

\* strings.ReplaceAll(s, `"`, `"`)
ReplaceAllQuot(s) == [i \in 1..Len(s) |-> IF s[i] = "\"" THEN "\"" ELSE s[i]]

-----------------------------------------------------------------------------
(* DOM nodes.                                                              *)

ELEMENT_NODE == "ELEMENT_NODE"
TEXT_NODE == "TEXT_NODE"
COMMENT_NODE == "COMMENT_NODE"
CDATA_SECTION_NODE == "CDATA_SECTION_NODE"
PROCESSING_INSTRUCTION_NODE == "PROCESSING_INSTRUCTION_NODE"
DOCUMENT_NODE == "DOCUMENT_NODE"
DOCUMENT_TYPE_NODE == "DOCUMENT_TYPE_NODE"

Nil == [type |-> "nil", name |-> <<>>, data |-> <<>>, attrs |-> <<>>, children |-> <<>>]

NewDocument ==
    [type |-> DOCUMENT_NODE, name |-> <<>>, data |-> <<>>, attrs |-> <<>>, children |-> <<>>]

CreateElement(tagName) ==
    [type |-> ELEMENT_NODE, name |-> tagName, data |-> <<>>, attrs |-> <<>>, children |-> <<>>]

CreateTextNode(data) ==
    [type |-> TEXT_NODE, name |-> <<>>, data |-> data, attrs |-> <<>>, children |-> <<>>]

CreateComment(data) ==
    [type |-> COMMENT_NODE, name |-> <<>>, data |-> data, attrs |-> <<>>, children |-> <<>>]

CreateCDATASection(data) ==
    [type |-> CDATA_SECTION_NODE, name |-> <<>>, data |-> data, attrs |-> <<>>, children |-> <<>>]

CreateProcessingInstruction(target, data) ==
    [type |-> PROCESSING_INSTRUCTION_NODE, name |-> target, data |-> data,
     attrs |-> <<>>, children |-> <<>>]

\* a DocumentType node of that name
CreateDocumentType(name) ==
    [type |-> DOCUMENT_TYPE_NODE, name |-> name, data |-> <<>>, attrs |-> <<>>,
     children |-> <<>>]

\* node.HasChildNodes()
HasChildNodes(node) == node.children # <<>>

\* node.AppendChild(newChild)
AppendChild(node, newChild) == [node EXCEPT !.children = Append(@, newChild)]

\* elem.SetAttribute(name, value): replaces the value of an attribute of that
\* name in place, or appends a new attribute to the map
SetAttribute(elem, name, value) ==
    IF \E i \in 1..Len(elem.attrs) : elem.attrs[i].name = name
    THEN [elem EXCEPT !.attrs =
            [i \in 1..Len(@) |-> IF @[i].name = name
                                 THEN [name |-> name, value |-> value] ELSE @[i]]]
    ELSE [elem EXCEPT !.attrs = Append(@, [name |-> name, value |-> value])]

\* doc.DocumentElement(): the Element child of the Document, or Nil
DocumentElement(d) ==
    IF \E i \in 1..Len(d.children) : d.children[i].type = ELEMENT_NODE
    THEN d.children[CHOOSE i \in 1..Len(d.children) :
                       /\ d.children[i].type = ELEMENT_NODE
                       /\ \A j \in 1..(i - 1) : d.children[j].type # ELEMENT_NODE]
    ELSE Nil

(* A path is the sequence of child indices that leads from a node to one   *)
(* of its descendants; it stands for the caller's reference to that node.  *)

RECURSIVE NodeAt(_, _)
NodeAt(node, path) ==
    IF path = <<>> THEN node ELSE NodeAt(node.children[Head(path)], Tail(path))

RECURSIVE ReplaceAt(_, _, _)
ReplaceAt(node, path, new) ==
    IF path = <<>> THEN new
    ELSE [node EXCEPT !.children[Head(path)] = ReplaceAt(@, Tail(path), new)]

RECURSIVE PathsOf(_)
PathsOf(node) ==
    {<<>>} \cup UNION {{<<i>> \o p : p \in PathsOf(node.children[i])} :
                          i \in 1..Len(node.children)}

RECURSIVE SumSeq(_)
SumSeq(s) == IF s = <<>> THEN 0 ELSE Head(s) + SumSeq(Tail(s))

\* nodes of the document, the Document node excluded
NodeCount(d) == Cardinality(PathsOf(d)) - 1

RECURSIVE AttrCount(_)
\* attributes of the node and of its descendants
AttrCount(node) ==
    Len(node.attrs) +
    SumSeq([i \in 1..Len(node.children) |-> AttrCount(node.children[i])])

ElementPaths(d) == {p \in PathsOf(d) : NodeAt(d, p).type = ELEMENT_NODE}

-----------------------------------------------------------------------------
(* The serializers of marshal.go.  Each returns the characters it writes   *)
(* to buf; none of them returns an error.                                  *)

RECURSIVE ConcatAttrs(_)
\* the writes of the attribute loop, one after the other
ConcatAttrs(ss) == IF ss = <<>> THEN <<>> ELSE Head(ss) \o ConcatAttrs(Tail(ss))

XmlDeclaration ==
    <<"<", "?", "x", "m", "l", " ", "v", "e", "r", "s", "i", "o", "n", "=",
      "\"", "1", ".", "0", "\"", "?", ">">>

\* serializeAttr with the delimiters swapped: single quotes unless the value
\* holds one
serializeAttr_singleQuoted(attrNode, preserveWhitespace) ==
    LET attrValue == attrNode.value
        q == IF Contains(attrValue, "'") THEN "\"" ELSE "'"
    IN  <<" ">> \o attrNode.name \o <<"=", q>> \o
        (IF ~preserveWhitespace THEN EscapeString(attrValue) ELSE attrValue) \o <<q>>

\* the attribute part of serializeElementWithOptions: one attribute
serializeAttr(attrNode, preserveWhitespace) ==
    LET attrValue == attrNode.value
        useSingleQuote == Contains(attrValue, "\"")
    IN  <<" ">> \o attrNode.name \o
        (IF useSingleQuote
         THEN <<"=", "'">> \o
              (IF ~preserveWhitespace
               THEN ReplaceAllQuot(EscapeString(attrValue))
               ELSE attrValue) \o
              <<"'">>
         ELSE <<"=", "\"">> \o
              (IF ~preserveWhitespace THEN EscapeString(attrValue) ELSE attrValue) \o
              <<"\"">>)

RECURSIVE serializeAttrs(_, _, _)
\* the attribute loop of serializeElementWithOptions, from index i (0-based
\* in the source, 1-based here) to attrs.Length()
serializeAttrs(attrs, i, preserveWhitespace) ==
    IF i > Len(attrs) THEN <<>>
    ELSE serializeAttr(attrs[i], preserveWhitespace) \o
         serializeAttrs(attrs, i + 1, preserveWhitespace)

RECURSIVE serializeElementWithOptions(_, _, _, _, _, _)
RECURSIVE serializeNodeWithOptions(_, _, _, _, _)
RECURSIVE serializeChildren(_, _, _, _, _, _)

\* serializeChildren walking from LastChild back to FirstChild
serializeChildren_reversed(children, i, prefix, indent, depth, preserveWhitespace) ==
    IF i > Len(children) THEN <<>>
    ELSE serializeChildren(children, i + 1, prefix, indent, depth, preserveWhitespace) \o
         serializeNodeWithOptions(children[i], prefix, indent, depth + 1,
                                  preserveWhitespace)

\* the child loop of serializeElementWithOptions: FirstChild, NextSibling, ...
serializeChildren(children, i, prefix, indent, depth, preserveWhitespace) ==
    IF i > Len(children) THEN <<>>
    ELSE serializeNodeWithOptions(children[i], prefix, indent, depth + 1,
                                  preserveWhitespace) \o
         serializeChildren(children, i + 1, prefix, indent, depth, preserveWhitespace)

\* serializeEmptyElement writing a self-closing tag
serializeEmptyElement_selfClosing(elem, indent) ==
    <<"/", ">">> \o (IF indent # <<>> THEN <<"\n">> ELSE <<>>)

\* the !hasChildren branch of serializeElementWithOptions: what follows the
\* attributes of an element without children
serializeEmptyElement(elem, indent) ==
    <<">", "<", "/">> \o elem.name \o <<">">> \o
    (IF indent # <<>> THEN <<"\n">> ELSE <<>>)

serializeElementWithOptions(elem, skipRoot, prefix, indent, depth, preserveWhitespace) ==
    LET hasChildren == HasChildNodes(elem)
        nl == IF indent # <<>> THEN <<"\n">> ELSE <<>>
        ind == IF indent # <<>> THEN Repeat(indent, depth) ELSE <<>>
        kids == serializeChildren(elem.children, 1, prefix, indent, depth,
                                  preserveWhitespace)
    IN  IF skipRoot THEN kids
        ELSE ind \o <<"<">> \o elem.name \o
             serializeAttrs(elem.attrs, 1, preserveWhitespace) \o
             (IF ~hasChildren
              THEN serializeEmptyElement(elem, indent)
              ELSE <<">">> \o nl \o kids \o
                   ind \o <<"<", "/">> \o elem.name \o <<">">> \o nl)

\* serializeText without the skip of whitespace-only text
serializeText_keepWhitespace(text, indent, depth, preserveWhitespace) ==
    (IF indent # <<>> THEN Repeat(indent, depth) ELSE <<>>) \o
    (IF preserveWhitespace THEN text.data ELSE EscapeString(text.data)) \o
    (IF indent # <<>> THEN <<"\n">> ELSE <<>>)

\* the TEXT_NODE case of serializeNodeWithOptions
serializeText(text, indent, depth, preserveWhitespace) ==
    LET textData == text.data
    IN  IF indent # <<>> /\ TrimSpaceIsEmpty(textData) THEN <<>>
        ELSE (IF indent # <<>> THEN Repeat(indent, depth) ELSE <<>>) \o
             (IF preserveWhitespace THEN textData ELSE EscapeString(textData)) \o
             (IF indent # <<>> THEN <<"\n">> ELSE <<>>)

serializeNodeWithOptions(node, prefix, indent, depth, preserveWhitespace) ==
    LET nl == IF indent # <<>> THEN <<"\n">> ELSE <<>>
        ind == IF indent # <<>> THEN Repeat(indent, depth) ELSE <<>>
    IN  CASE node.type = ELEMENT_NODE ->
               serializeElementWithOptions(node, FALSE, prefix, indent, depth,
                                           preserveWhitespace)
          [] node.type = TEXT_NODE ->
               serializeText(node, indent, depth, preserveWhitespace)
          [] node.type = COMMENT_NODE ->
               ind \o <<"<", "!", "-", "-">> \o
               (IF preserveWhitespace THEN node.data ELSE EscapeString(node.data)) \o
               <<"-", "-", ">">> \o nl
          [] node.type = CDATA_SECTION_NODE ->
               ind \o <<"<", "!", "[", "C", "D", "A", "T", "A", "[">> \o node.data \o
               <<"]", "]", ">">> \o nl
          [] node.type = PROCESSING_INSTRUCTION_NODE ->
               ind \o <<"<", "?">> \o node.name \o
               (IF node.data # <<>> THEN <<" ">> \o node.data ELSE <<>>) \o
               <<"?", ">">> \o nl
          [] OTHER -> <<>>

(* serializeElement and serializeNode: the serializers without the        *)
(* preserveWhitespace option.  No function of marshal.go calls them.       *)

RECURSIVE serializeElement(_, _, _, _, _)
RECURSIVE serializeNode(_, _, _, _)
RECURSIVE serializeElementChildren(_, _, _, _, _)

\* the attribute part of serializeElement: one attribute
serializeElementAttr(attrNode) ==
    LET attrValue == attrNode.value
        useSingleQuote == Contains(attrValue, "\"")
    IN  <<" ">> \o attrNode.name \o
        (IF useSingleQuote
         THEN <<"=", "'">> \o attrValue \o <<"'">>
         ELSE <<"=", "\"">> \o EscapeString(attrValue) \o <<"\"">>)

\* the child loop of serializeElement
serializeElementChildren(children, i, prefix, indent, depth) ==
    IF i > Len(children) THEN <<>>
    ELSE serializeNode(children[i], prefix, indent, depth + 1) \o
         serializeElementChildren(children, i + 1, prefix, indent, depth)

serializeElement(elem, skipRoot, prefix, indent, depth) ==
    LET hasChildren == HasChildNodes(elem)
        nl == IF indent # <<>> THEN <<"\n">> ELSE <<>>
        ind == IF indent # <<>> THEN Repeat(indent, depth) ELSE <<>>
        kids == serializeElementChildren(elem.children, 1, prefix, indent, depth)
    IN  IF skipRoot THEN kids
        ELSE ind \o <<"<">> \o elem.name \o
             ConcatAttrs([i \in 1..Len(elem.attrs) |-> serializeElementAttr(elem.attrs[i])]) \o
             (IF ~hasChildren
              THEN <<">", "<", "/">> \o elem.name \o <<">">> \o nl
              ELSE <<">">> \o nl \o kids \o
                   ind \o <<"<", "/">> \o elem.name \o <<">">> \o nl)

serializeNode(node, prefix, indent, depth) ==
    LET nl == IF indent # <<>> THEN <<"\n">> ELSE <<>>
        ind == IF indent # <<>> THEN Repeat(indent, depth) ELSE <<>>
    IN  CASE node.type = ELEMENT_NODE ->
               serializeElement(node, FALSE, prefix, indent, depth)
          [] node.type = TEXT_NODE ->
               IF indent # <<>> /\ TrimSpaceIsEmpty(node.data) THEN <<>>
               ELSE ind \o EscapeString(node.data) \o nl
          [] node.type = COMMENT_NODE ->
               ind \o <<"<", "!", "-", "-">> \o node.data \o <<"-", "-", ">">> \o nl
          [] node.type = CDATA_SECTION_NODE ->
               ind \o <<"<", "!", "[", "C", "D", "A", "T", "A", "[">> \o node.data \o
               <<"]", "]", ">">> \o nl
          [] node.type = PROCESSING_INSTRUCTION_NODE ->
               ind \o <<"<", "?">> \o node.name \o
               (IF node.data # <<>> THEN <<" ">> \o node.data ELSE <<>>) \o
               <<"?", ">">> \o nl
          [] OTHER -> <<>>

\* marshalDOMWithOptions serializing every child of the Document in order
marshalDOMWithOptions_allChildren(d, prefix, indent, preserveWhitespace) ==
    XmlDeclaration \o
    (IF indent # <<>> THEN <<"\n">> ELSE <<>>) \o
    serializeChildren(d.children, 1, prefix, indent, 0 - 1, preserveWhitespace)

\* marshalDOMWithOptions writing the newline after the declaration whatever
\* the indent
marshalDOMWithOptions_alwaysNewline(d, prefix, indent, preserveWhitespace) ==
    LET root == DocumentElement(d)
    IN  XmlDeclaration \o <<"\n">> \o
        (IF root = Nil THEN <<>>
         ELSE serializeElementWithOptions(root, FALSE, prefix, indent, 0,
                                          preserveWhitespace))

marshalDOMWithOptions(d, prefix, indent, preserveWhitespace) ==
    LET root == DocumentElement(d)
    IN  XmlDeclaration \o
        (IF indent # <<>> THEN <<"\n">> ELSE <<>>) \o
        (IF root = Nil THEN <<>>
         ELSE serializeElementWithOptions(root, FALSE, prefix, indent, 0,
                                          preserveWhitespace))

marshalDOM(d, prefix, indent, preserveWhitespace) ==
    marshalDOMWithOptions(d, prefix, indent, preserveWhitespace)

\* marshalElementWithOptions writing the XML declaration as marshalDOM does
marshalElementWithOptions_declaration(elem, prefix, indent, preserveWhitespace) ==
    XmlDeclaration \o
    (IF indent # <<>> THEN <<"\n">> ELSE <<>>) \o
    serializeElementWithOptions(elem, FALSE, prefix, indent, 0, preserveWhitespace)

marshalElementWithOptions(elem, prefix, indent, preserveWhitespace) ==
    serializeElementWithOptions(elem, FALSE, prefix, indent, 0, preserveWhitespace)

marshalElement(elem, prefix, indent, preserveWhitespace) ==
    marshalElementWithOptions(elem, prefix, indent, preserveWhitespace)

marshalNodeWithOptions(node, prefix, indent, preserveWhitespace) ==
    serializeNodeWithOptions(node, prefix, indent, 0, preserveWhitespace)

marshalNode(node, prefix, indent, preserveWhitespace) ==
    marshalNodeWithOptions(node, prefix, indent, FALSE)

\* Marshal(v) for a DOM value v: the type switch on Document, Element, Node
Marshal(v) ==
    CASE v.type = DOCUMENT_NODE -> marshalDOM(v, <<>>, <<>>, TRUE)
      [] v.type = ELEMENT_NODE  -> marshalElement(v, <<>>, <<>>, TRUE)
      [] OTHER                  -> marshalNode(v, <<>>, <<>>, TRUE)

MarshalIndentWithOptions(v, prefix, indent, preserveWhitespace) ==
    CASE v.type = DOCUMENT_NODE ->
           marshalDOMWithOptions(v, prefix, indent, preserveWhitespace)
      [] v.type = ELEMENT_NODE ->
           marshalElementWithOptions(v, prefix, indent, preserveWhitespace)
      [] OTHER ->
           marshalNodeWithOptions(v, prefix, indent, preserveWhitespace)

MarshalIndent(v, prefix, indent, preserveWhitespace) ==
    MarshalIndentWithOptions(v, prefix, indent, preserveWhitespace)

-----------------------------------------------------------------------------
(* The inputs the caller draws from.                                       *)

\* Spec: nested elements with plain content
TagNames == {<<"a">>, <<"a", "b">>}

PlainText == {<<"G", "o">>}

PlainComments == {<<"c">>}

PlainAttrNames == {<<"i", "d">>, <<"k">>}

PlainAttrValues == {<<"1">>}

\* SpecEscape: one element with content that needs escaping
EscapeTagNames == {<<"e">>}

AttrNames == {<<"i", "d">>, <<"k">>}

AttrValues == {<<"1">>, <<"&", "<">>, <<"\"", "'">>, <<"\n">>}

TextData == {<<"G", "o">>, <<"&", "<", ">">>, <<" ">>, <<"\n">>, <<>>}

CommentData == {<<"c">>, <<"&">>}

CDATAData == {<<"d">>}

PITargets == {<<"p", "i">>}

PIData == {<<>>, <<"x">>}

\* SpecReadme: the README's "Creating Documents" program
ReadmeNames ==
    {<<"b", "o", "o", "k", "s">>, <<"b", "o", "o", "k">>, <<"t", "i", "t", "l", "e">>}

ReadmeAttrValues == {<<"1">>, <<"2">>}

ReadmeText == {<<"G", "o">>, <<"R", "s">>}

\* the arguments of MarshalIndent
Prefixes == {<<>>, <<"p">>}

Indents == {<<>>, <<" ", " ">>}

NoCall ==
    [fn |-> "none", v |-> <<>>, prefix |-> <<>>, indent |-> <<>>,
     preserveWhitespace |-> FALSE]

\* the nodes the caller passes to Marshal: doc, doc.FirstChild() and
\* doc.FirstChild().FirstChild(), where they exist
Targets(d) ==
    {p \in {<<>>, <<1>>, <<1, 1>>} : p \in PathsOf(d)}

\* nodes and attributes of the document, the Document node excluded
ContentCount(d) == NodeCount(d) + AttrCount(d)

-----------------------------------------------------------------------------
(* The caller: builds a document, then serializes a node of it.            *)

Init ==
    /\ doc = NewDocument
    /\ call = NoCall
    /\ out = <<>>
    /\ err = "nil"

\* parent.AppendChild(newChild) for the node the path p refers to
Build(p, newChild) ==
    /\ call = NoCall
    /\ doc' = ReplaceAt(doc, p, AppendChild(NodeAt(doc, p), newChild))
    /\ UNCHANGED <<call, out, err>>

\* root := doc.CreateElement(tagName); doc.AppendChild(root)
AppendDocumentElement(tagName) ==
    /\ DocumentElement(doc) = Nil
    /\ Build(<<>>, CreateElement(tagName))

\* e := doc.CreateElement(tagName); parent.AppendChild(e)
AppendElement(p, tagName) ==
    /\ p \in ElementPaths(doc)
    /\ Build(p, CreateElement(tagName))

\* parent.AppendChild(doc.CreateTextNode(data))
AppendText(p, data) ==
    /\ p \in ElementPaths(doc)
    /\ Build(p, CreateTextNode(data))

\* parent.AppendChild(doc.CreateComment(data))
AppendComment(p, data) ==
    /\ p \in ElementPaths(doc)
    /\ Build(p, CreateComment(data))

\* parent.AppendChild(doc.CreateCDATASection(data))
AppendCDATASection(p, data) ==
    /\ p \in ElementPaths(doc)
    /\ Build(p, CreateCDATASection(data))

\* parent.AppendChild(doc.CreateProcessingInstruction(target, data))
AppendProcessingInstruction(p, target, data) ==
    /\ p \in ElementPaths(doc)
    /\ Build(p, CreateProcessingInstruction(target, data))

\* elem.SetAttribute(name, value)
SetAttr(p, name, value) ==
    /\ call = NoCall
    /\ p \in ElementPaths(doc)
    /\ doc' = ReplaceAt(doc, p, SetAttribute(NodeAt(doc, p), name, value))
    /\ UNCHANGED <<call, out, err>>

\* out, err := Marshal(v) for the node v the path p refers to
CallMarshal(p) ==
    /\ call = NoCall
    /\ p \in PathsOf(doc)
    /\ call' = [fn |-> "Marshal", v |-> p, prefix |-> <<>>, indent |-> <<>>,
                preserveWhitespace |-> TRUE]
    /\ out' = Marshal(NodeAt(doc, p))
    /\ err' = "nil"
    /\ UNCHANGED doc

\* out, err := MarshalIndent(v, prefix, indent, preserveWhitespace)
CallMarshalIndent(p, prefix, indent, preserveWhitespace) ==
    /\ call = NoCall
    /\ p \in PathsOf(doc)
    /\ call' = [fn |-> "MarshalIndent", v |-> p, prefix |-> prefix, indent |-> indent,
                preserveWhitespace |-> preserveWhitespace]
    /\ out' = MarshalIndent(NodeAt(doc, p), prefix, indent, preserveWhitespace)
    /\ err' = "nil"
    /\ UNCHANGED doc

\* the document has fewer than max nodes and attributes
Room(max) == call = NoCall /\ ContentCount(doc) < max

\* an attribute of that name is there to be reset
HasAttr(p, name) ==
    /\ p \in ElementPaths(doc)
    /\ \E i \in 1..Len(NodeAt(doc, p).attrs) : NodeAt(doc, p).attrs[i].name = name

(* Spec: documents of nested elements.                                     *)
Next ==
    \/ Room(MaxNodes) /\ \E n \in TagNames : AppendDocumentElement(n)
    \/ Room(MaxNodes) /\ \E p \in PathsOf(doc), n \in TagNames : AppendElement(p, n)
    \/ Room(MaxNodes) /\ \E p \in PathsOf(doc), d \in PlainText : AppendText(p, d)
    \/ Room(MaxNodes) /\ \E p \in PathsOf(doc), d \in PlainComments : AppendComment(p, d)
    \/ /\ call = NoCall
       /\ \E p \in PathsOf(doc), n \in PlainAttrNames, a \in PlainAttrValues :
             (Room(MaxNodes) \/ HasAttr(p, n)) /\ SetAttr(p, n, a)
    \/ call = NoCall /\ \E p \in Targets(doc) : CallMarshal(p)
    \/ /\ call = NoCall
       /\ \E p \in Targets(doc), x \in Prefixes, i \in Indents, w \in BOOLEAN :
             CallMarshalIndent(p, x, i, w)

Spec == Init /\ [][Next]_vars

(* SpecEscape: one element, with text, comments, sections, instructions    *)
(* and attributes whose data needs escaping.                               *)
NextEscape ==
    \/ call = NoCall /\ \E n \in EscapeTagNames : AppendDocumentElement(n)
    \/ Room(MaxContent + 1) /\ \E d \in TextData : AppendText(<<1>>, d)
    \/ Room(MaxContent + 1) /\ \E d \in CommentData : AppendComment(<<1>>, d)
    \/ Room(MaxContent + 1) /\ \E d \in CDATAData : AppendCDATASection(<<1>>, d)
    \/ /\ Room(MaxContent + 1)
       /\ \E t \in PITargets, d \in PIData : AppendProcessingInstruction(<<1>>, t, d)
    \/ /\ call = NoCall
       /\ \E n \in AttrNames, a \in AttrValues :
             (Room(MaxContent + 1) \/ HasAttr(<<1>>, n)) /\ SetAttr(<<1>>, n, a)
    \/ call = NoCall /\ \E p \in Targets(doc) : CallMarshal(p)
    \/ /\ call = NoCall
       /\ \E p \in Targets(doc), x \in Prefixes, i \in Indents, w \in BOOLEAN :
             CallMarshalIndent(p, x, i, w)

SpecEscape == Init /\ [][NextEscape]_vars

\* root := doc.CreateElement(n); doc.AppendChild(root)
ReadmeRoot(n) == AppendDocumentElement(n)

\* book := doc.CreateElement(n); book.SetAttribute(an, av); root.AppendChild(book)
ReadmeBook(n, an, av) ==
    /\ <<1>> \in PathsOf(doc)
    /\ ~HasChildNodes(NodeAt(doc, <<1>>))
    /\ Build(<<1>>, SetAttribute(CreateElement(n), an, av))

\* title := doc.CreateElement(n); title.AppendChild(doc.CreateTextNode(d));
\* book.AppendChild(title)
ReadmeTitle(n, d) ==
    /\ <<1, 1>> \in PathsOf(doc)
    /\ ~HasChildNodes(NodeAt(doc, <<1, 1>>))
    /\ Build(<<1, 1>>, AppendChild(CreateElement(n), CreateTextNode(d)))

(* SpecReadme: the README's program, its names and data drawn from small   *)
(* sets, serialized at any stage.                                          *)
NextReadme ==
    \/ \E n \in ReadmeNames : ReadmeRoot(n)
    \/ \E n \in ReadmeNames, an \in PlainAttrNames, av \in ReadmeAttrValues :
          ReadmeBook(n, an, av)
    \/ \E n \in ReadmeNames, d \in ReadmeText : ReadmeTitle(n, d)
    \/ CallMarshal(<<>>)

SpecReadme == Init /\ [][NextReadme]_vars

\* doc.AppendChild(doc.CreateComment(data))
AppendDocumentComment(data) == Build(<<>>, CreateComment(data))

\* doc.AppendChild(doc.CreateProcessingInstruction(target, data))
AppendDocumentProcessingInstruction(target, data) ==
    Build(<<>>, CreateProcessingInstruction(target, data))

\* the DocumentType node: at most one, and before the document element
AppendDocumentType(name) ==
    /\ DocumentElement(doc) = Nil
    /\ \A i \in 1..Len(doc.children) : doc.children[i].type # DOCUMENT_TYPE_NODE
    /\ Build(<<>>, CreateDocumentType(name))

(* SpecDocument: documents with comments, processing instructions and a    *)
(* DocumentType beside the document element, before it and after it.       *)
NextDocument ==
    \/ Room(MaxDocumentNodes) /\ \E n \in TagNames : AppendDocumentElement(n)
    \/ Room(MaxDocumentNodes) /\ \E d \in CommentData : AppendDocumentComment(d)
    \/ /\ Room(MaxDocumentNodes)
       /\ \E t \in PITargets, d \in PIData : AppendDocumentProcessingInstruction(t, d)
    \/ Room(MaxDocumentNodes) /\ \E n \in EscapeTagNames : AppendDocumentType(n)
    \/ Room(MaxDocumentNodes) /\ \E p \in PathsOf(doc), d \in PlainText : AppendText(p, d)
    \/ call = NoCall /\ \E p \in Targets(doc) : CallMarshal(p)
    \/ /\ call = NoCall
       /\ \E p \in Targets(doc), x \in Prefixes, i \in Indents, w \in BOOLEAN :
             CallMarshalIndent(p, x, i, w)

SpecDocument == Init /\ [][NextDocument]_vars

-----------------------------------------------------------------------------
(* Reading the returned bytes.                                             *)

\* s[i..] starts with sub
StartsAt(sub, s, i) ==
    /\ i + Len(sub) - 1 <= Len(s)
    /\ \A j \in 1..Len(sub) : s[i + j - 1] = sub[j]

\* strings.HasPrefix(s, sub)
HasPrefix(s, sub) == StartsAt(sub, s, 1)

\* strings.Count(s, sub) for a non-empty sub, overlapping matches included
Occurrences(sub, s) == Cardinality({i \in 1..Len(s) : StartsAt(sub, s, i)})

\* strings.Contains(s, sub)
ContainsSeq(s, sub) == \E i \in 1..Len(s) : StartsAt(sub, s, i)

Called == call.fn # "none"

\* the node v that was passed to Marshal or MarshalIndent
Target == NodeAt(doc, call.v)

\* the element whose serialization the call returns, or Nil
SerializedRoot ==
    CASE Target.type = DOCUMENT_NODE -> DocumentElement(Target)
      [] Target.type = ELEMENT_NODE  -> Target
      [] OTHER                       -> Nil

\* the elements of the serialized subtree, as paths from its root
SerializedElements ==
    {p \in PathsOf(SerializedRoot) : NodeAt(SerializedRoot, p).type = ELEMENT_NODE}

-----------------------------------------------------------------------------
(* C1: the document the README's program builds (books > book id="1" >     *)
(* title > "Go") is marshalled to exactly                                  *)
(* <?xml version="1.0"?><books><book id="1"><title>Go</title></book></books> *)
(* with a nil error.                                                       *)

ReadmeDocument ==
    AppendChild(NewDocument,
      AppendChild(CreateElement(<<"b", "o", "o", "k", "s">>),
        AppendChild(SetAttribute(CreateElement(<<"b", "o", "o", "k">>),
                                 <<"i", "d">>, <<"1">>),
          AppendChild(CreateElement(<<"t", "i", "t", "l", "e">>),
                      CreateTextNode(<<"G", "o">>)))))

ReadmeBytes ==
    <<"<", "?", "x", "m", "l", " ", "v", "e", "r", "s", "i", "o", "n", "=",
      "\"", "1", ".", "0", "\"", "?", ">", "<", "b", "o", "o", "k", "s", ">",
      "<", "b", "o", "o", "k", " ", "i", "d", "=", "\"", "1", "\"", ">", "<",
      "t", "i", "t", "l", "e", ">", "G", "o", "<", "/", "t", "i", "t", "l",
      "e", ">", "<", "/", "b", "o", "o", "k", ">", "<", "/", "b", "o", "o",
      "k", "s", ">">>

\* C1: Marshal(doc) of the README document returns ReadmeBytes and a nil error
C1_ReadmeMarshal ==
    (call.fn = "Marshal" /\ call.v = <<>> /\ doc = ReadmeDocument)
        => (out = ReadmeBytes /\ err = "nil")

C1_Witness ==
    call.fn = "Marshal" /\ call.v = <<>> /\ doc = ReadmeDocument /\ out # <<>>

-----------------------------------------------------------------------------
(* C2: the XML declaration is written once, at the start of the output,    *)
(* when a Document is marshalled, and not at all when an Element or any    *)
(* other node is.                                                          *)

\* C2: a Document's output starts with the declaration and holds it once;
\* the output for any other node does not hold it
C2_DeclarationOnlyForDocument ==
    Called =>
        IF Target.type = DOCUMENT_NODE
        THEN HasPrefix(out, XmlDeclaration) /\ Occurrences(XmlDeclaration, out) = 1
        ELSE Occurrences(XmlDeclaration, out) = 0

C2_Witness ==
    /\ call.fn = "MarshalIndent"
    /\ call.indent # <<>>
    /\ Target.type = DOCUMENT_NODE
    /\ HasChildNodes(DocumentElement(Target))
    /\ HasPrefix(out, XmlDeclaration)

-----------------------------------------------------------------------------
(* C3: an element without children is written as its opening tag followed  *)
(* at once by its closing tag, never as a self-closing tag.                *)

\* <name attrs></name>
EmptyForm(elem, preserveWhitespace) ==
    <<"<">> \o elem.name \o serializeAttrs(elem.attrs, 1, preserveWhitespace) \o
    <<">", "<", "/">> \o elem.name \o <<">">>

ChildlessElements ==
    {p \in SerializedElements : ~HasChildNodes(NodeAt(SerializedRoot, p))}

\* C3: the output holds no "/>", and holds each childless element's
\* <name attrs></name> as many times as the subtree has such elements
C3_NoSelfClosing ==
    Called =>
        /\ ~ContainsSeq(out, <<"/", ">">>)
        /\ \A p \in ChildlessElements :
              LET form == EmptyForm(NodeAt(SerializedRoot, p), call.preserveWhitespace)
              IN  Occurrences(form, out) =
                      Cardinality({q \in ChildlessElements :
                          EmptyForm(NodeAt(SerializedRoot, q),
                                    call.preserveWhitespace) = form})

C3_Witness ==
    /\ Called
    /\ call.indent # <<>>
    /\ \E p \in ChildlessElements :
          /\ Len(p) >= 1
          /\ NodeAt(SerializedRoot, p).attrs # <<>>
          /\ ContainsSeq(out, EmptyForm(NodeAt(SerializedRoot, p),
                                        call.preserveWhitespace))

-----------------------------------------------------------------------------
(* Escaping, read off the returned bytes.                                  *)

\* strings.Count(s, c) for a one-character c
CountChar(c, s) == Cardinality({i \in 1..Len(s) : s[i] = c})

\* the characters of an entity or character reference between "&" and ";"
ReferenceChars ==
    {"a", "m", "p", "l", "t", "g", "q", "u", "o", "s", "#", "x", "A", "D",
     "0", "1", "2", "3", "4", "5", "6", "7", "8", "9"}

\* every "&" of s begins a reference: "&", one or more reference
\* characters, ";"
AmpersandsAreReferences(s) ==
    \A i \in 1..Len(s) :
        s[i] = "&" =>
            \E j \in (i + 2)..Len(s) :
                /\ s[j] = ";"
                /\ \A k \in (i + 1)..(j - 1) : s[k] \in ReferenceChars

\* s holds none of the characters that escaping replaces in content
Plain(s) == ~Contains(s, "&") /\ ~Contains(s, "<") /\ ~Contains(s, ">")

\* the nodes of the serialized subtree, as paths from its root
SerializedNodes == IF SerializedRoot = Nil THEN {} ELSE PathsOf(SerializedRoot)

NodesOfType(t) == {p \in SerializedNodes : NodeAt(SerializedRoot, p).type = t}

\* the "<" that the markup of the output accounts for: one for the
\* declaration, two for each element, one for each comment, CDATA section
\* and processing instruction (each has as many ">")
MarkupBrackets ==
    (IF Target.type = DOCUMENT_NODE THEN 1 ELSE 0) +
    2 * Cardinality(NodesOfType(ELEMENT_NODE)) +
    Cardinality(NodesOfType(COMMENT_NODE)) +
    Cardinality(NodesOfType(CDATA_SECTION_NODE)) +
    Cardinality(NodesOfType(PROCESSING_INSTRUCTION_NODE))

\* the attributes of the serialized subtree: <<path of the element, index>>
SerializedAttrs ==
    UNION {{<<p, i>> : i \in 1..Len(NodeAt(SerializedRoot, p).attrs)} :
              p \in SerializedElements}

AttrOf(pi) == NodeAt(SerializedRoot, pi[1]).attrs[pi[2]]

\* "&", "<" and ">" occur in the data of Text nodes only
OnlyTextNeedsEscaping ==
    /\ \A p \in SerializedNodes :
          NodeAt(SerializedRoot, p).type # TEXT_NODE =>
              Plain(NodeAt(SerializedRoot, p).data)
    /\ \A pi \in SerializedAttrs : Plain(AttrOf(pi).value)

\* the index of the first c in s at or after i (Len(s) + 1 if there is none)
RECURSIVE IndexFrom(_, _, _)
IndexFrom(s, c, i) ==
    IF i > Len(s) THEN Len(s) + 1
    ELSE IF s[i] = c THEN i ELSE IndexFrom(s, c, i + 1)

\* the places in s where the attribute's name and opening delimiter q start
AttrStarts(s, attr, q) ==
    {i \in 1..Len(s) : StartsAt(<<" ">> \o attr.name \o <<"=", q>>, s, i)}

\* the characters of s between the opening delimiter q of the attribute that
\* starts at i and the next q
AttrBody(s, attr, q, i) ==
    LET from == i + Len(attr.name) + 3
    IN  SubSeq(s, from, IndexFrom(s, q, from) - 1)

\* the character of s after the q that closes the attribute starting at i
AfterAttr(s, attr, q, i) ==
    LET close == IndexFrom(s, q, i + Len(attr.name) + 3)
    IN  IF close + 1 <= Len(s) THEN s[close + 1] ELSE "EOF"

-----------------------------------------------------------------------------
(* C4: Marshal of a Document or Element XML-escapes the data of every Text *)
(* node: no raw "&", "<" or ">" of the data reaches the output.            *)

\* C4 as claimed: where only Text data holds "&", "<", ">", the output of
\* Marshal holds no "&" that is not a reference and no "<" or ">" beyond
\* those of the markup
C4_TextEscapedByMarshal ==
    (call.fn = "Marshal" /\ SerializedRoot # Nil /\ OnlyTextNeedsEscaping) =>
        /\ AmpersandsAreReferences(out)
        /\ CountChar("<", out) = MarkupBrackets
        /\ CountChar(">", out) = MarkupBrackets

-----------------------------------------------------------------------------
(* C5: Marshal writes an attribute whose value holds no double quote as    *)
(* name="value", the value XML-escaped.                                    *)

\* C5 as claimed: each such attribute appears in the output of Marshal as
\*  name="...", and between the delimiters there is no "<" and no "&" that
\* is not a reference
C5_AttrEscapedByMarshal ==
    (call.fn = "Marshal" /\ SerializedRoot # Nil) =>
        \A pi \in SerializedAttrs :
            ~Contains(AttrOf(pi).value, "\"") =>
                \E i \in AttrStarts(out, AttrOf(pi), "\"") :
                    /\ ~Contains(AttrBody(out, AttrOf(pi), "\"", i), "<")
                    /\ AmpersandsAreReferences(AttrBody(out, AttrOf(pi), "\"", i))

-----------------------------------------------------------------------------
(* C6: an attribute whose value holds a double quote is delimited by       *)
(* single quotes, and every single quote inside is escaped, whatever       *)
(* preserveWhitespace is.                                                  *)

\* C6 as claimed: each such attribute appears as  name='...', and the first
\* single quote after the opening one closes it: what follows is the next
\* attribute or the end of the tag
C6_SingleQuotedAttrWellFormed ==
    (Called /\ SerializedRoot # Nil) =>
        \A pi \in SerializedAttrs :
            Contains(AttrOf(pi).value, "\"") =>
                \E i \in AttrStarts(out, AttrOf(pi), "'") :
                    AfterAttr(out, AttrOf(pi), "'", i) \in {" ", ">"}

-----------------------------------------------------------------------------
(* C7: preserveWhitespace only turns off the escaping of newline and tab:  *)
(* without newlines and tabs in the tree, both settings give the same      *)
(* bytes.                                                                  *)

NoNewlineOrTab(s) == ~Contains(s, "\n") /\ ~Contains(s, "\t")

\* no Text data, Comment data or attribute value of the marshalled subtree
\* holds a newline or a tab
TreeHasNoNewlineOrTab ==
    /\ \A p \in PathsOf(Target) :
          NodeAt(Target, p).type \in {TEXT_NODE, COMMENT_NODE} =>
              NoNewlineOrTab(NodeAt(Target, p).data)
    /\ \A p \in PathsOf(Target) :
          \A i \in 1..Len(NodeAt(Target, p).attrs) :
              NoNewlineOrTab(NodeAt(Target, p).attrs[i].value)

\* C7 as claimed: MarshalIndent with the other value of preserveWhitespace
\* returns the same bytes
C7_PreserveWhitespaceOnlyNewlineTab ==
    (call.fn = "MarshalIndent" /\ TreeHasNoNewlineOrTab) =>
        out = MarshalIndent(Target, call.prefix, call.indent, ~call.preserveWhitespace)

-----------------------------------------------------------------------------
(* C8: with a non-empty indent, each element's opening tag, and the        *)
(* closing tag of each element with children, starts a line of its own     *)
(* that ends with a newline and begins with the prefix and depth copies    *)
(* of the indent.                                                          *)

\* the places where a line of s starts
LineStarts(s) == {i \in 1..Len(s) : i = 1 \/ s[i - 1] = "\n"}

\* the leading text the claim gives a line at that depth
LineLead(prefix, indent, depth) == prefix \o Repeat(indent, depth)

\* some line of s is lead, then tag, then one of the characters in next
HasLine(s, lead, tag, next) ==
    \E i \in LineStarts(s) :
        /\ StartsAt(lead \o tag, s, i)
        /\ i + Len(lead) + Len(tag) <= Len(s)
        /\ s[i + Len(lead) + Len(tag)] \in next

\* the lines of the elements' tags, each led by lead(depth)
TagLines(lead(_)) ==
    /\ out # <<>>
    /\ out[Len(out)] = "\n"
    /\ \A p \in SerializedElements :
          LET elem == NodeAt(SerializedRoot, p)
          IN  /\ HasLine(out, lead(Len(p)), <<"<">> \o elem.name, {" ", ">"})
              /\ HasChildNodes(elem) =>
                    HasLine(out, lead(Len(p)), <<"<", "/">> \o elem.name \o <<">">>,
                            {"\n"})

\* C8 as claimed: the lines of the tags begin with the prefix and depth
\* copies of the indent
C8_IndentedLinesWithPrefix ==
    (call.fn = "MarshalIndent" /\ call.indent # <<>> /\ SerializedRoot # Nil) =>
        LET lead(depth) == LineLead(call.prefix, call.indent, depth)
        IN  TagLines(lead)

-----------------------------------------------------------------------------
(* The output of the serialized root element, taken apart: its opening     *)
(* tag, what each child contributes, its closing tag.                      *)

RECURSIVE ConcatAll(_)
ConcatAll(ss) == IF ss = <<>> THEN <<>> ELSE Head(ss) \o ConcatAll(Tail(ss))

\* the output without the declaration (and its newline) of a Document
ElementOutput ==
    IF Target.type = DOCUMENT_NODE
    THEN SubSeq(out,
                Len(XmlDeclaration) + (IF call.indent # <<>> THEN 1 ELSE 0) + 1,
                Len(out))
    ELSE out

Newline == IF call.indent # <<>> THEN <<"\n">> ELSE <<>>

\* the root element's output when each attribute contributes attr(a) and
\* each child contributes child(c), in the order of the attribute map and
\* of the child list
Composed(attr(_), child(_)) ==
    LET elem == SerializedRoot
    IN  <<"<">> \o elem.name \o
        ConcatAll([i \in 1..Len(elem.attrs) |-> attr(elem.attrs[i])]) \o
        (IF HasChildNodes(elem)
         THEN <<">">> \o Newline \o
              ConcatAll([j \in 1..Len(elem.children) |-> child(elem.children[j])]) \o
              <<"<", "/">> \o elem.name \o <<">">> \o Newline
         ELSE <<">", "<", "/">> \o elem.name \o <<">">> \o Newline)

WrittenAttr(a) == serializeAttr(a, call.preserveWhitespace)

WrittenChild(c) ==
    serializeNodeWithOptions(c, call.prefix, call.indent, 1, call.preserveWhitespace)

\* character data as the call's preserveWhitespace has it written
WrittenData(d) == IF call.preserveWhitespace THEN d ELSE EscapeString(d)

-----------------------------------------------------------------------------
(* C9: when indenting, a Text child that is empty or all whitespace        *)
(* contributes nothing to the output and every other Text child is         *)
(* written; without indenting, whitespace-only Text children are written.  *)

\* what a Text child contributes when indenting
IndentedText(c) ==
    IF TrimSpaceIsEmpty(c.data) THEN <<>>
    ELSE call.indent \o WrittenData(c.data) \o <<"\n">>

\* C9 as claimed: without indenting, a whitespace-only Text child
\* contributes its data verbatim
C9_WhitespaceTextVerbatim ==
    (Called /\ SerializedRoot # Nil) =>
        LET child(c) ==
              IF c.type # TEXT_NODE THEN WrittenChild(c)
              ELSE IF call.indent # <<>> THEN IndentedText(c)
              ELSE IF TrimSpaceIsEmpty(c.data) THEN c.data
              ELSE WrittenData(c.data)
        IN  ElementOutput = Composed(WrittenAttr, child)

\* C9 amended: when indenting, a Text child that is empty or all whitespace
\* contributes no bytes and every other Text child is written; without
\* indenting, a whitespace-only Text child is written like any other Text:
\* verbatim if preserveWhitespace is set, XML-escaped if it is not
C9_WhitespaceTextElided ==
    (Called /\ SerializedRoot # Nil) =>
        LET child(c) ==
              IF c.type # TEXT_NODE THEN WrittenChild(c)
              ELSE IF call.indent # <<>> THEN IndentedText(c)
              ELSE WrittenData(c.data)
        IN  ElementOutput = Composed(WrittenAttr, child)

C9_Witness ==
    /\ Called
    /\ call.indent # <<>>
    /\ SerializedRoot # Nil
    /\ \E j \in 1..Len(SerializedRoot.children) :
          /\ SerializedRoot.children[j].type = TEXT_NODE
          /\ SerializedRoot.children[j].data # <<>>
          /\ TrimSpaceIsEmpty(SerializedRoot.children[j].data)
    /\ \E j \in 1..Len(SerializedRoot.children) :
          /\ SerializedRoot.children[j].type = TEXT_NODE
          /\ ~TrimSpaceIsEmpty(SerializedRoot.children[j].data)
          /\ ContainsSeq(out, WrittenData(SerializedRoot.children[j].data))

-----------------------------------------------------------------------------
(* C10: an element's attributes are written inside its opening tag, each   *)
(* once, in the order of the attribute map, before any child; its          *)
(* children are written between the opening and the closing tag, each      *)
(* once, in FirstChild, NextSibling order.                                 *)

\* C10: the root element's output is its opening tag with the attributes
\* in map order, then the children's outputs in sibling order, then its
\* closing tag
C10_DocumentOrder ==
    (Called /\ SerializedRoot # Nil) =>
        ElementOutput = Composed(WrittenAttr, WrittenChild)

C10_Witness ==
    /\ Called
    /\ SerializedRoot # Nil
    /\ SerializedRoot.attrs # <<>>
    /\ Len(SerializedRoot.children) >= 2
    /\ SerializedRoot.children[1] # SerializedRoot.children[2]
    /\ WrittenChild(SerializedRoot.children[1]) #
           WrittenChild(SerializedRoot.children[2])
    /\ out # <<>>

-----------------------------------------------------------------------------
(* C11: for a Document whose DocumentElement() is nil, Marshal and         *)
(* MarshalIndent return a nil error and exactly the XML declaration,       *)
(* followed by one newline if and only if indent is non-empty, and nothing *)
(* else.                                                                   *)

\* a Document without a document element was marshalled
NilDocumentElementCall ==
    /\ Called
    /\ Target.type = DOCUMENT_NODE
    /\ DocumentElement(Target) = Nil

C11_NilDocumentElement ==
    NilDocumentElementCall =>
        /\ err = "nil"
        /\ out = <<"<", "?", "x", "m", "l", " ", "v", "e", "r", "s", "i", "o", "n",
                   "=", "\"", "1", ".", "0", "\"", "?", ">">> \o
                 (IF call.indent # <<>> THEN <<"\n">> ELSE <<>>)

\* MarshalIndent with an indent, of a Document that holds a comment or an
\* instruction but no element
C11_Witness ==
    /\ NilDocumentElementCall
    /\ call.fn = "MarshalIndent"
    /\ call.indent # <<>>
    /\ HasChildNodes(Target)

-----------------------------------------------------------------------------
(* C13: what Marshal and MarshalIndent return for a Document depends only  *)
(* on the subtree of its document element: the bytes are those returned    *)
(* for the Document that holds that element and nothing else, and no       *)
(* comment, processing instruction or DocumentType child of the Document   *)
(* is written.                                                             *)

\* a Document whose only child is the document element of d
DocumentElementOnly(d) ==
    IF DocumentElement(d) = Nil THEN NewDocument
    ELSE AppendChild(NewDocument, DocumentElement(d))

\* the children of the marshalled Document that are of type t
DocumentChildren(t) ==
    {i \in 1..Len(Target.children) : Target.children[i].type = t}

C13_OnlyDocumentElementEmitted ==
    (Called /\ Target.type = DOCUMENT_NODE) =>
        /\ out = IF call.fn = "Marshal"
                 THEN Marshal(DocumentElementOnly(Target))
                 ELSE MarshalIndent(DocumentElementOnly(Target), call.prefix,
                                    call.indent, call.preserveWhitespace)
        /\ ~ContainsSeq(out, <<"<", "!">>)
        /\ Occurrences(<<"<", "?">>, out) = 1

\* a Document with a comment before its document element and a comment or
\* an instruction after it was marshalled
C13_Witness ==
    /\ Called
    /\ Target.type = DOCUMENT_NODE
    /\ \E e \in DocumentChildren(ELEMENT_NODE) :
          /\ \E i \in DocumentChildren(COMMENT_NODE) : i < e
          /\ \E j \in DocumentChildren(COMMENT_NODE)
                    \cup DocumentChildren(PROCESSING_INSTRUCTION_NODE) : j > e

-----------------------------------------------------------------------------
(* C12: the output for a tree rooted at an Element is tag-balanced and     *)
(* properly nested: every Element of the subtree contributes one opening   *)
(* tag and one closing tag of its TagName, the closing tag after the       *)
(* output of all its descendants, and reading the tags from left to right  *)
(* as push and pop never pops a name other than the one on top and ends    *)
(* with an empty stack.                                                    *)

\* the name that starts at s[i]: up to a space, a ">" or a newline
RECURSIVE NameFrom(_, _)
NameFrom(s, i) ==
    IF i > Len(s) \/ s[i] \in {" ", ">", "\n"} THEN <<>>
    ELSE <<s[i]>> \o NameFrom(s, i + 1)

\* the opening and closing tags of s from s[i] on, left to right; the
\* declaration ("<?") and comments ("<!") are not tags
RECURSIVE TagEvents(_, _)
TagEvents(s, i) ==
    IF i > Len(s) THEN <<>>
    ELSE IF s[i] # "<" THEN TagEvents(s, i + 1)
    ELSE IF i < Len(s) /\ s[i + 1] \in {"?", "!"} THEN TagEvents(s, i + 1)
    ELSE IF i < Len(s) /\ s[i + 1] = "/"
         THEN <<[kind |-> "close", name |-> NameFrom(s, i + 2)]>> \o
              TagEvents(s, i + 2)
         ELSE <<[kind |-> "open", name |-> NameFrom(s, i + 1)]>> \o
              TagEvents(s, i + 1)

\* push on an opening tag, pop on a closing tag: no pop of a name other
\* than the top of the stack, and the stack is empty at the end
RECURSIVE Balanced(_, _)
Balanced(events, stack) ==
    IF events = <<>> THEN stack = <<>>
    ELSE IF Head(events).kind = "open"
         THEN Balanced(Tail(events), <<Head(events).name>> \o stack)
         ELSE /\ stack # <<>>
              /\ Head(stack) = Head(events).name
              /\ Balanced(Tail(events), Tail(stack))

\* the names of the tags of that kind, left to right
NamesOf(events, kind) ==
    LET sel == SelectSeq(events, LAMBDA e : e.kind = kind)
    IN  [i \in 1..Len(sel) |-> sel[i].name]

\* the TagNames of the elements of a tree, each before its descendants
RECURSIVE PreorderNames(_)
PreorderNames(node) ==
    IF node.type # ELEMENT_NODE THEN <<>>
    ELSE <<node.name>> \o
         ConcatAll([i \in 1..Len(node.children) |-> PreorderNames(node.children[i])])

\* the TagNames of the elements of a tree, each after its descendants
RECURSIVE PostorderNames(_)
PostorderNames(node) ==
    IF node.type # ELEMENT_NODE THEN <<>>
    ELSE ConcatAll([i \in 1..Len(node.children) |-> PostorderNames(node.children[i])])
         \o <<node.name>>

-----------------------------------------------------------------------------
(* C14: Marshal escapes a node's content the same way whether the node is  *)
(* passed to Marshal or is reached as a child of a marshalled Element: for *)
(* a Text or Comment node n with parent Element e, the bytes of Marshal(n) *)
(* are the bytes that n contributes inside Marshal(e).                     *)

\* the bytes of Marshal(e) with the contribution of e's first child
\* replaced by bytes: the opening tag, bytes, the other children, the
\* closing tag
MarshalWithFirstChild(e, bytes) ==
    <<"<">> \o e.name \o serializeAttrs(e.attrs, 1, TRUE) \o <<">">> \o
    bytes \o
    ConcatAll([j \in 1..(Len(e.children) - 1) |->
                 serializeNodeWithOptions(e.children[j + 1], <<>>, <<>>, 1, TRUE)]) \o
    <<"<", "/">> \o e.name \o <<">">>

\* Marshal was passed the first child of the document's first child, a
\* Text or Comment node of an Element
MarshalOfChild ==
    /\ call.fn = "Marshal"
    /\ call.v = <<1, 1>>
    /\ NodeAt(doc, <<1>>).type = ELEMENT_NODE
    /\ Target.type \in {TEXT_NODE, COMMENT_NODE}

C14_SameBytesAsChild ==
    MarshalOfChild =>
        Marshal(NodeAt(doc, <<1>>)) = MarshalWithFirstChild(NodeAt(doc, <<1>>), out)

====
